---- MODULE Spec2Model ----
(***************************************************************************)
(* tests_e2e/recipes/lib1/lib1.h of rtbo/dopamine: the header of the       *)
(* smallest library recipe.  The header is a preprocessor program: the     *)
(* model runs it, line by line, in two translation units (the library's    *)
(* own and a consumer's), each compiled with its own set of -D switches,   *)
(* then parses the emitted tokens into the declarations the compiler sees. *)
(***************************************************************************)
EXTENDS Integers, Sequences, FiniteSets, TLC

\* How many #include "lib1.h" directives a translation unit may contain.
MaxIncludes == 2

\* The translation units of the build: the library's and a consumer's.
TUs == {"lib", "app"}

\* The macros the header tests with #ifdef and never defines itself.
Switches == {"__cplusplus", "_WIN32", "IS_DLL", "PKGA_LIB"}
VisSwitches == {"_WIN32", "IS_DLL", "PKGA_LIB"}

\* Replacement lists of API (lines 11, 13, 16, 19).
DllExport == <<"__declspec", "(", "dllexport", ")">>
DllImport == <<"__declspec", "(", "dllimport", ")">>
Empty == <<>>

\* Constructors of the lines of a header.
DPragmaOnce == [kind |-> "pragma_once", name |-> "", toks |-> <<>>]
DBlank == [kind |-> "blank", name |-> "", toks |-> <<>>]
DIfdef(n) == [kind |-> "ifdef", name |-> n, toks |-> <<>>]
DElse == [kind |-> "else", name |-> "", toks |-> <<>>]
DEndif == [kind |-> "endif", name |-> "", toks |-> <<>>]
DDefine(n, body) == [kind |-> "define", name |-> n, toks |-> body]
DText(toks) == [kind |-> "text", name |-> "", toks |-> toks]

----------------------------------------------------------------------------
\* lib1.h, line by line.  "C_lit" is the string literal "C".
\* A line with a suffix (Line3Typo, Line11Swapped, ...) is a faulty variant of
\* the line defined after it; Header uses none of them.

Line1Unguarded == DBlank
Line1 == DPragmaOnce
Line2 == DBlank
Line3Typo == DIfdef("_cplusplus")
Line3 == DIfdef("__cplusplus")
Line4 == DText(<<"extern", "C_lit">>)
Line5 == DText(<<"{">>)
Line6 == DEndif
Line7 == DBlank
Line8 == DIfdef("_WIN32")
Line9WrongSwitch == DIfdef("__cplusplus")
Line9 == DIfdef("IS_DLL")
Line10 == DIfdef("PKGA_LIB")
Line11Swapped == DDefine("API", DllImport)
Line11 == DDefine("API", DllExport)
Line12 == DElse
Line13Export == DDefine("API", DllExport)
Line13 == DDefine("API", DllImport)
Line14 == DEndif
Line15Missing == DBlank
Line15 == DElse
Line16WrongName == DDefine("IS_DLL", Empty)
Line16 == DDefine("API", Empty)
Line17 == DEndif
Line18 == DElse
Line19Pasted == DDefine("API", DllImport)
Line19 == DDefine("API", Empty)
Line20 == DEndif
Line21 == DBlank
Line22Long == DText(<<"API", "long", "func1", "(", "int", "x", ")", ";">>)
Line22 == DText(<<"API", "int", "func1", "(", "int", "x", ")", ";">>)
Line23 == DBlank
Line24Typo == DIfdef("_cplusplus")
Line24 == DIfdef("__cplusplus")
Line25 == DText(<<"}">>)
Line26 == DEndif

Header ==
    << Line1, Line2, Line3, Line4, Line5, Line6, Line7, Line8, Line9,
       Line10, Line11, Line12, Line13, Line14, Line15, Line16, Line17,
       Line18, Line19, Line20, Line21, Line22, Line23, Line24, Line25,
       Line26 >>

----------------------------------------------------------------------------
VARIABLES
    cfg,       \* cfg[t]: the switches given to the compiler of t (-D, language)
    macros,    \* macros[t]: macro name -> replacement list, the defined macros
    pc,        \* pc[t]: the line of lib1.h being processed, 0 outside of it
    cond,      \* cond[t]: the stack of open #ifdef groups
    out,       \* out[t]: the tokens the preprocessor has emitted
    once,      \* once[t]: lib1.h is marked #pragma once
    includes,  \* includes[t]: #include "lib1.h" directives processed
    defLog,    \* defLog[t]: the lines whose #define was executed
    errors,    \* errors[t]: diagnostics of the preprocessor
    phase,     \* "compile", then "linked" or "linkfail", then "ran"
    result     \* the value the consumer got from func1(5), -1 before the call

vars == << cfg, macros, pc, cond, out, once, includes, defLog, errors,
           phase, result >>

\* The text is processed only in a group whose condition held.
Active(stack) == stack = <<>> \/ stack[Len(stack)].live

\* Macro replacement of a line of text.
RECURSIVE Expand(_, _)
Expand(toks, m) ==
    IF toks = <<>> THEN <<>>
    ELSE (IF Head(toks) \in DOMAIN m THEN m[Head(toks)] ELSE << Head(toks) >>)
         \o Expand(Tail(toks), m)

PredefinedBody == <<"1">>

Init ==
    /\ cfg \in [TUs -> SUBSET Switches]
    /\ macros = [t \in TUs |-> [n \in cfg[t] |-> PredefinedBody]]
    /\ pc = [t \in TUs |-> 0]
    /\ cond = [t \in TUs |-> <<>>]
    /\ out = [t \in TUs |-> <<>>]
    /\ once = [t \in TUs |-> FALSE]
    /\ includes = [t \in TUs |-> 0]
    /\ defLog = [t \in TUs |-> <<>>]
    /\ errors = [t \in TUs |-> {}]
    /\ phase = "compile"
    /\ result = -1

\* The line under the cursor of t.
AtLine(t, k) ==
    /\ phase = "compile"
    /\ pc[t] \in 1..Len(Header)
    /\ Header[pc[t]].kind = k

\* #include "lib1.h" in the translation unit: a file marked once is skipped.
Include(t) ==
    /\ phase = "compile"
    /\ pc[t] = 0
    /\ includes[t] < MaxIncludes
    /\ includes' = [includes EXCEPT ![t] = @ + 1]
    /\ pc' = [pc EXCEPT ![t] = IF once[t] THEN 0 ELSE 1]
    /\ UNCHANGED << cfg, macros, cond, out, once, defLog, errors, phase, result >>

\* #pragma once
PragmaOnce(t) ==
    /\ AtLine(t, "pragma_once")
    /\ once' = [once EXCEPT ![t] = @ \/ Active(cond[t])]
    /\ pc' = [pc EXCEPT ![t] = @ + 1]
    /\ UNCHANGED << cfg, macros, cond, out, includes, defLog, errors, phase, result >>

Blank(t) ==
    /\ AtLine(t, "blank")
    /\ pc' = [pc EXCEPT ![t] = @ + 1]
    /\ UNCHANGED << cfg, macros, cond, out, once, includes, defLog, errors, phase, result >>

\* #ifdef NAME opens a group, live when the enclosing text is and NAME is defined.
Ifdef(t) ==
    /\ AtLine(t, "ifdef")
    /\ LET live == Active(cond[t]) /\ Header[pc[t]].name \in DOMAIN macros[t]
       IN  cond' = [cond EXCEPT ![t] =
                      Append(@, [live |-> live, taken |-> live,
                                 outer |-> Active(cond[t])])]
    /\ pc' = [pc EXCEPT ![t] = @ + 1]
    /\ UNCHANGED << cfg, macros, out, once, includes, defLog, errors, phase, result >>

\* #else switches to the alternative of the innermost group.
Else(t) ==
    /\ AtLine(t, "else")
    /\ IF cond[t] = <<>>
       THEN /\ errors' = [errors EXCEPT ![t] = @ \cup {"else without if"}]
            /\ UNCHANGED cond
       ELSE /\ LET n == Len(cond[t])
                   top == cond[t][n]
               IN  cond' = [cond EXCEPT ![t][n] =
                              [live |-> top.outer /\ ~top.taken,
                               taken |-> TRUE, outer |-> top.outer]]
            /\ UNCHANGED errors
    /\ pc' = [pc EXCEPT ![t] = @ + 1]
    /\ UNCHANGED << cfg, macros, out, once, includes, defLog, phase, result >>

\* #endif closes the innermost group.
Endif(t) ==
    /\ AtLine(t, "endif")
    /\ IF cond[t] = <<>>
       THEN /\ errors' = [errors EXCEPT ![t] = @ \cup {"endif without if"}]
            /\ UNCHANGED cond
       ELSE /\ cond' = [cond EXCEPT ![t] = SubSeq(@, 1, Len(@) - 1)]
            /\ UNCHANGED errors
    /\ pc' = [pc EXCEPT ![t] = @ + 1]
    /\ UNCHANGED << cfg, macros, out, once, includes, defLog, phase, result >>

\* #define NAME body, in a live group; a different body for a defined name
\* is a redefinition.
Define(t) ==
    /\ AtLine(t, "define")
    /\ LET d == Header[pc[t]]
       IN  IF Active(cond[t])
           THEN /\ macros' = [macros EXCEPT ![t] = (d.name :> d.toks) @@ @]
                /\ defLog' = [defLog EXCEPT ![t] = Append(@, pc[t])]
                /\ errors' = [errors EXCEPT ![t] =
                                IF d.name \in DOMAIN macros[t]
                                   /\ macros[t][d.name] # d.toks
                                THEN @ \cup {"redefinition"} ELSE @]
           ELSE UNCHANGED << macros, defLog, errors >>
    /\ pc' = [pc EXCEPT ![t] = @ + 1]
    /\ UNCHANGED << cfg, cond, out, once, includes, phase, result >>

\* A line of text, in a live group, is emitted with its macros replaced.
Text(t) ==
    /\ AtLine(t, "text")
    /\ out' = [out EXCEPT ![t] =
                 IF Active(cond[t])
                 THEN @ \o Expand(Header[pc[t]].toks, macros[t]) ELSE @]
    /\ pc' = [pc EXCEPT ![t] = @ + 1]
    /\ UNCHANGED << cfg, macros, cond, once, includes, defLog, errors, phase, result >>

\* The end of lib1.h: a group still open is an error; back to the includer.
EndOfFile(t) ==
    /\ phase = "compile"
    /\ pc[t] = Len(Header) + 1
    /\ errors' = [errors EXCEPT ![t] =
                    IF cond[t] # <<>> THEN @ \cup {"unterminated if"} ELSE @]
    /\ cond' = [cond EXCEPT ![t] = <<>>]
    /\ pc' = [pc EXCEPT ![t] = 0]
    /\ UNCHANGED << cfg, macros, out, once, includes, defLog, phase, result >>

----------------------------------------------------------------------------
\* What the compiler makes of the emitted tokens.

TypeNames == {"int", "long", "void", "char"}
Attributes == {"dllexport", "dllimport"}
Reserved == TypeNames \cup Attributes
              \cup {"extern", "C_lit", "__declspec", "{", "}", "(", ")", ";", "<eof>"}

Tok(toks, i) == IF i \in 1..Len(toks) THEN toks[i] ELSE "<eof>"
IsIdent(s) == s \notin Reserved

NoUnit == [decls |-> <<>>, depth |-> 0, blocks |-> 0, err |-> FALSE]

\* The top-level items of a translation unit: extern "C" {, }, and
\* declarations  [__declspec(attr)] type name ( type name ) ;
\* A name declared outside of every extern "C" block of a C++ unit has C++ linkage.
RECURSIVE ParseFrom(_, _, _, _)
ParseFrom(toks, i, cpp, st) ==
    IF i > Len(toks) THEN st
    ELSE IF Tok(toks, i) = "extern"
    THEN IF cpp /\ Tok(toks, i + 1) = "C_lit" /\ Tok(toks, i + 2) = "{"
         THEN ParseFrom(toks, i + 3, cpp,
                        [st EXCEPT !.depth = @ + 1, !.blocks = @ + 1])
         ELSE [st EXCEPT !.err = TRUE]
    ELSE IF Tok(toks, i) = "}"
    THEN IF st.depth > 0
         THEN ParseFrom(toks, i + 1, cpp, [st EXCEPT !.depth = @ - 1])
         ELSE [st EXCEPT !.err = TRUE]
    ELSE LET hasAttr == /\ Tok(toks, i) = "__declspec"
                        /\ Tok(toks, i + 1) = "("
                        /\ Tok(toks, i + 2) \in Attributes
                        /\ Tok(toks, i + 3) = ")"
             j == IF hasAttr THEN i + 4 ELSE i
             d == [attr |-> IF hasAttr THEN Tok(toks, i + 2) ELSE "none",
                   ret |-> Tok(toks, j),
                   name |-> Tok(toks, j + 1),
                   params |-> << Tok(toks, j + 3) >>,
                   inBlock |-> st.depth > 0,
                   linkage |-> IF st.depth > 0 \/ ~cpp THEN "C" ELSE "C++"]
         IN  IF /\ Tok(toks, j) \in TypeNames
                /\ IsIdent(Tok(toks, j + 1))
                /\ Tok(toks, j + 2) = "("
                /\ Tok(toks, j + 3) \in TypeNames
                /\ IsIdent(Tok(toks, j + 4))
                /\ Tok(toks, j + 5) = ")"
                /\ Tok(toks, j + 6) = ";"
             THEN ParseFrom(toks, j + 7, cpp, [st EXCEPT !.decls = Append(@, d)])
             ELSE [st EXCEPT !.err = TRUE]

Unit(t) == ParseFrom(out[t], 1, "__cplusplus" \in cfg[t], NoUnit)

\* The declarations of func1 a translation unit has seen.
Func1Decls(t) == { k \in 1..Len(Unit(t).decls) : Unit(t).decls[k].name = "func1" }

Compiles(t) ==
    /\ errors[t] = {}
    /\ ~Unit(t).err
    /\ Unit(t).depth = 0
    /\ Func1Decls(t) # {}

Decl(t) == Unit(t).decls[CHOOSE k \in Func1Decls(t) : TRUE]

----------------------------------------------------------------------------
\* The end-to-end scenario: the library defines func1, the consumer calls it.

CallArg == 5
func1(x) == x + 1

\* The symbols the library's object offers for  int func1(int x) { ... },
\* defined after its declaration in lib1.h.
Exports(d) ==
    IF d.attr = "dllimport" THEN {}
    ELSE { [name |-> d.name, mangled |-> d.linkage = "C++", imp |-> FALSE] }
         \cup (IF d.attr = "dllexport"
               THEN { [name |-> d.name, mangled |-> d.linkage = "C++", imp |-> TRUE] }
               ELSE {})

\* The symbol a call through the declaration refers to.
Reference(d) ==
    [name |-> d.name, mangled |-> d.linkage = "C++", imp |-> d.attr = "dllimport"]

Link ==
    /\ phase = "compile"
    /\ \A t \in TUs : pc[t] = 0 /\ includes[t] >= 1
    /\ phase' = IF /\ \A t \in TUs : Compiles(t)
                   /\ Reference(Decl("app")) \in Exports(Decl("lib"))
                THEN "linked" ELSE "linkfail"
    /\ UNCHANGED << cfg, macros, pc, cond, out, once, includes, defLog, errors, result >>

Run ==
    /\ phase = "linked"
    /\ result' = func1(CallArg)
    /\ phase' = "ran"
    /\ UNCHANGED << cfg, macros, pc, cond, out, once, includes, defLog, errors >>

----------------------------------------------------------------------------
Next ==
    \/ \E t \in TUs : Include(t)
    \/ \E t \in TUs : PragmaOnce(t)
    \/ \E t \in TUs : Blank(t)
    \/ \E t \in TUs : Ifdef(t)
    \/ \E t \in TUs : Else(t)
    \/ \E t \in TUs : Endif(t)
    \/ \E t \in TUs : Define(t)
    \/ \E t \in TUs : Text(t)
    \/ \E t \in TUs : EndOfFile(t)
    \/ Link
    \/ Run

Spec == Init /\ [][Next]_vars

TypeOK ==
    /\ cfg \in [TUs -> SUBSET Switches]
    /\ pc \in [TUs -> 0..(Len(Header) + 1)]
    /\ includes \in [TUs -> 0..MaxIncludes]
    /\ once \in [TUs -> BOOLEAN]
    /\ phase \in {"compile", "linked", "linkfail", "ran"}

----------------------------------------------------------------------------
\* Vocabulary of the properties.

\* t has processed lib1.h at least once and is back in the including file.
Done(t) == pc[t] = 0 /\ includes[t] >= 1
Has(t, sw) == sw \in cfg[t]
Api(t) == macros[t]["API"]
Count(toks, x) == Cardinality({ i \in 1..Len(toks) : toks[i] = x })
Declaration == <<"int", "func1", "(", "int", "x", ")", ";">>

\* C1: on a Windows-like target API expands to __declspec(dllexport) when
\* IS_DLL and PKGA_LIB are defined, to __declspec(dllimport) when IS_DLL is
\* defined and PKGA_LIB is not, and to nothing when IS_DLL is not defined;
\* the declaration of func1 carries that attribute.
C1_WindowsMatrix ==
    \A t \in TUs : (Done(t) /\ Has(t, "_WIN32")) =>
        /\ "API" \in DOMAIN macros[t]
        /\ (Has(t, "IS_DLL") /\ Has(t, "PKGA_LIB")) =>
               (Api(t) = DllExport /\ out[t] # <<>> /\ Decl(t).attr = "dllexport")
        /\ (Has(t, "IS_DLL") /\ ~Has(t, "PKGA_LIB")) =>
               (Api(t) = DllImport /\ out[t] # <<>> /\ Decl(t).attr = "dllimport")
        /\ ~Has(t, "IS_DLL") =>
               (Api(t) = Empty /\ out[t] # <<>> /\ Decl(t).attr = "none")

C1_Witness ==
    /\ Done("lib") /\ cfg["lib"] = {"_WIN32", "IS_DLL", "PKGA_LIB"}
    /\ Done("app") /\ cfg["app"] = {"_WIN32", "IS_DLL"}
    /\ Decl("lib").attr = "dllexport"
    /\ Decl("app").attr = "dllimport"

\* C2: on a target that is not Windows-like, API is never defined to anything
\* but the empty replacement list and no __declspec, dllexport or dllimport
\* token is ever emitted, whatever IS_DLL and PKGA_LIB are.
C2_NoAttributeElsewhere ==
    \A t \in TUs : ~Has(t, "_WIN32") =>
        /\ ("API" \in DOMAIN macros[t] => Api(t) = Empty)
        /\ Done(t) => ("API" \in DOMAIN macros[t] /\ Decl(t).attr = "none")
        /\ \A i \in 1..Len(out[t]) :
               out[t][i] \notin {"__declspec", "dllexport", "dllimport"}

C2_Witness ==
    /\ Done("lib") /\ cfg["lib"] = {"IS_DLL", "PKGA_LIB"}
    /\ Done("app") /\ cfg["app"] = {"IS_DLL", "__cplusplus"}
    /\ Decl("lib").name = "func1" /\ Decl("app").name = "func1"

\* C3: in a C++ translation unit the declaration of func1 lies inside one
\* extern "C" block, opened before it and closed after it, and has C linkage;
\* in a C translation unit no extern "C" block is emitted.  Whatever the
\* visibility switches are.
C3_CLinkage ==
    \A t \in TUs : Done(t) =>
        /\ ~Unit(t).err
        /\ Func1Decls(t) # {}
        /\ Decl(t).linkage = "C"
        /\ Has(t, "__cplusplus") =>
               /\ Unit(t).blocks = 1
               /\ Decl(t).inBlock
               /\ Unit(t).depth = 0
               /\ SubSeq(out[t], 1, 3) = <<"extern", "C_lit", "{">>
               /\ out[t][Len(out[t])] = "}"
        /\ ~Has(t, "__cplusplus") =>
               /\ Unit(t).blocks = 0
               /\ ~Decl(t).inBlock
               /\ \A i \in 1..Len(out[t]) :
                      out[t][i] \notin {"extern", "C_lit", "{", "}"}

C3_Witness ==
    /\ Done("app") /\ Has("app", "__cplusplus") /\ Decl("app").inBlock
    /\ Done("lib") /\ ~Has("lib", "__cplusplus") /\ Decl("lib").linkage = "C"

\* C4: a further #include of lib1.h changes nothing in the translation unit
\* (macros, emitted tokens, diagnostics), and however often it is included
\* API is defined once, func1 is declared once, there is at most one
\* extern "C" block and no redefinition.
C4_Idempotent ==
    /\ [](\A t \in TUs : Done(t) =>
            /\ Len(defLog[t]) = 1
            /\ Len(Unit(t).decls) = 1
            /\ Unit(t).blocks <= 1
            /\ errors[t] = {})
    /\ [][\A t \in TUs :
            (Done(t) /\ includes'[t] = includes[t] + 1) =>
                /\ pc'[t] = 0
                /\ macros'[t] = macros[t]
                /\ out'[t] = out[t]
                /\ defLog'[t] = defLog[t]
                /\ errors'[t] = errors[t]]_vars

C4_Witness ==
    /\ pc["app"] = 0 /\ includes["app"] >= 2
    /\ Len(Unit("app").decls) = 1
    /\ cfg["app"] = Switches

\* C5: the header never defines or undefines _WIN32, IS_DLL, PKGA_LIB or
\* __cplusplus, nor changes their replacement lists; the only macro it adds
\* is API.
C5_SwitchesUntouched ==
    \A t \in TUs :
        /\ DOMAIN macros[t] \cap Switches = cfg[t]
        /\ \A n \in cfg[t] : macros[t][n] = PredefinedBody
        /\ DOMAIN macros[t] \subseteq cfg[t] \cup {"API"}
        /\ Done(t) => DOMAIN macros[t] = cfg[t] \cup {"API"}

C5_Witness ==
    /\ Done("lib") /\ cfg["lib"] = {"_WIN32", "PKGA_LIB"}
    /\ Done("app") /\ cfg["app"] = {}
    /\ DOMAIN macros["app"] = {"API"}

\* C6: in every configuration the header declares exactly one symbol, func1,
\* with one int parameter and return type int; the tokens of the declaration
\* after the attribute are the same in every configuration.
C6_OneDeclaration ==
    \A t \in TUs : Done(t) =>
        /\ ~Unit(t).err
        /\ Len(Unit(t).decls) = 1
        /\ Unit(t).decls[1].name = "func1"
        /\ Unit(t).decls[1].ret = "int"
        /\ Unit(t).decls[1].params = <<"int">>
        /\ Count(out[t], "func1") = 1
        /\ \E i \in 0..Len(out[t]) :
               SubSeq(out[t], i + 1, i + Len(Declaration)) = Declaration

C6_Witness ==
    /\ Done("lib") /\ Done("app")
    /\ cfg["lib"] = Switches /\ cfg["app"] = {"_WIN32"}
    /\ Unit("lib").decls[1].name = "func1"
    /\ Unit("app").decls[1].name = "func1"

\* The build switches of the library and of the consumer belong together:
\* same platform, same kind of library, and for a Windows DLL the library is
\* built with PKGA_LIB and the consumer without.  The languages may differ.
ConfigsAgree ==
    /\ Has("lib", "_WIN32") <=> Has("app", "_WIN32")
    /\ Has("lib", "IS_DLL") <=> Has("app", "IS_DLL")
    /\ (Has("lib", "_WIN32") /\ Has("lib", "IS_DLL")) =>
           (Has("lib", "PKGA_LIB") /\ ~Has("app", "PKGA_LIB"))

C8_ExactlyOneBranch ==
    \A t \in TUs :
        /\ Len(defLog[t]) <= 1
        /\ "redefinition" \notin errors[t]
        /\ (pc[t] >= 22 \/ Done(t)) =>
               /\ Len(defLog[t]) = 1
               /\ defLog[t][1] \in {11, 13, 16, 19}
               /\ "API" \in DOMAIN macros[t]
        /\ Count(out[t], "API") = 0

C8_Witness ==
    /\ pc["lib"] = 23 /\ defLog["lib"] = <<13>>
    /\ pc["app"] = 23 /\ defLog["app"] = <<16>>

\* C9: two translation units that agree on _WIN32, IS_DLL and PKGA_LIB get
\* the same expansion of API whatever __cplusplus is in each, and two that
\* agree on __cplusplus get the same extern "C" block (present or absent)
\* whatever the other three switches are.
C9_Independent ==
    \A t, u \in TUs : (Done(t) /\ Done(u)) =>
        /\ (cfg[t] \cap VisSwitches = cfg[u] \cap VisSwitches) =>
               /\ Api(t) = Api(u)
               /\ Decl(t).attr = Decl(u).attr
        /\ (Has(t, "__cplusplus") <=> Has(u, "__cplusplus")) =>
               /\ Unit(t).blocks = Unit(u).blocks
               /\ Decl(t).inBlock = Decl(u).inBlock
               /\ Count(out[t], "extern") = Count(out[u], "extern")
               /\ Count(out[t], "}") = Count(out[u], "}")

C9_Witness ==
    /\ Done("lib") /\ Done("app")
    /\ cfg["lib"] = {"_WIN32", "IS_DLL"}
    /\ cfg["app"] = {"_WIN32", "IS_DLL", "__cplusplus"}
    /\ Api("lib") = DllImport /\ Api("app") = DllImport

\* C10: the extern "C" block is balanced: the opening brace is emitted if and
\* only if the closing brace is, both exactly when __cplusplus is defined;
\* between them lies the declaration of func1 and nothing else, and after the
\* header no block is left open.
C10_Balanced ==
    \A t \in TUs :
        /\ Count(out[t], "}") <= Count(out[t], "{")
        /\ Done(t) =>
               /\ Count(out[t], "{") = Count(out[t], "}")
               /\ Count(out[t], "{") = (IF Has(t, "__cplusplus") THEN 1 ELSE 0)
               /\ ~Unit(t).err /\ Unit(t).depth = 0
               /\ cond[t] = <<>>
               /\ "unterminated if" \notin errors[t]
               /\ Has(t, "__cplusplus") =>
                      LET o == CHOOSE i \in 1..Len(out[t]) : out[t][i] = "{"
                          c == CHOOSE i \in 1..Len(out[t]) : out[t][i] = "}"
                      IN  /\ o < c
                          /\ SubSeq(out[t], o + 1, c - 1)
                               = Expand(<<"API">>, macros[t]) \o Declaration

C10_Witness ==
    /\ Done("lib") /\ Has("lib", "__cplusplus") /\ Count(out["lib"], "}") = 1
    /\ Done("app") /\ ~Has("app", "__cplusplus") /\ Count(out["app"], "{") = 0

====
